---- MODULE Spec2Model ----
(***************************************************************************)
(* A model of sbutil.py: the _GlyphSet bookkeeping over the host's status  *)
(* bar items, and the StatusBar.style setter with flash_style's background *)
(* threads over the host's style overrides.                                *)
(*                                                                         *)
(* The host (UIApplication / UIStatusBar behind objc_util) is the          *)
(* environment.  Its status bar items are the set of glyph ids added and   *)
(* not removed since; its style overrides are the set of override codes    *)
(* added and not removed since (the setter removes the current code before *)
(* it adds another one, sbutil.py:204, because adding does not replace).   *)
(***************************************************************************)
EXTENDS Integers, Sequences, FiniteSets, TLC

\* ------------------------------------------------------------- bounds
MaxGlyph == 2
MaxGroup == 2
MaxDepth == 2
MaxFlash == 2

Glyphs == 1..MaxGlyph

RECURSIVE SeqsUpTo(_)
SeqsUpTo(n) ==
  IF n = 0 THEN {<<>>}
  ELSE LET prev == SeqsUpTo(n - 1)
       IN prev \cup {Append(s, g) : s \in {p \in prev : Len(p) = n - 1}, g \in Glyphs}

\* The argument tuples of sb.glyphs(*args).
Groups == SeqsUpTo(MaxGroup)

VARIABLES
  objs,     \* the live _GlyphSet objects: [items, ctx] each
  active,   \* StatusBar._active_glyphs: an index into objs
  host,     \* the host's status bar items: added and not removed since
  withs,    \* the open `with sb.glyphs(...)` blocks, innermost last
  last,     \* the glyph operation that ran last, and how it ended
  overrides,\* the host's style overrides, a bit mask: added, not removed since
  main,     \* the caller's thread: the assignment to StatusBar.style it runs
  fl        \* the flash_style threads

gvars == <<objs, active, host, withs, last>>
svars == <<overrides, main, fl>>
vars == <<objs, active, host, withs, last, overrides, main, fl>>

\* ------------------------------------------------- the running machine
\* A method runs over m = [objs, host, calls, exc]: the heap, the host's
\* items, the host calls issued so far and the exception raised ("none").
Machine(o, h) == [objs |-> o, host |-> h, calls |-> <<>>, exc |-> "none"]

_add_glyph(m, g) ==
  [m EXCEPT !.host = @ \cup {g}, !.calls = Append(@, <<"add", g>>)]

_remove_glyph(m, g) ==
  [m EXCEPT !.host = @ \ {g}, !.calls = Append(@, <<"remove", g>>)]

add(m, i, g) ==
  IF m.exc # "none" THEN m
  ELSE _add_glyph([m EXCEPT !.objs[i].items = @ \cup {g}], g)

\* remove as it would be with the set's own removal ahead of the host call.
removeCheckFirst(m, i, g) ==
  IF m.exc # "none" THEN m
  ELSE IF g \in m.objs[i].items
       THEN _remove_glyph([m EXCEPT !.objs[i].items = @ \ {g}], g)
       ELSE [m EXCEPT !.exc = "KeyError"]

remove(m, i, g) ==
  IF m.exc # "none" THEN m
  ELSE LET m1 == _remove_glyph(m, g)
       IN IF g \in m1.objs[i].items
          THEN [m1 EXCEPT !.objs[i].items = @ \ {g}]
          ELSE [m1 EXCEPT !.exc = "KeyError"]

\* The glyphs of a set in increasing order: one of the orders in which
\* Python may iterate it (the order changes no resulting state).
RECURSIVE SetToSeq(_)
SetToSeq(S) ==
  IF S = {} THEN <<>>
  ELSE LET x == CHOOSE y \in S : \A z \in S : y <= z
       IN <<x>> \o SetToSeq(S \ {x})

Range(s) == {s[k] : k \in 1..Len(s)}

RECURSIVE AddEach(_, _, _)
AddEach(m, i, s) ==
  IF s = <<>> THEN m ELSE AddEach(add(m, i, Head(s)), i, Tail(s))

RECURSIVE RemoveEach(_, _, _)
RemoveEach(m, i, s) ==
  IF s = <<>> THEN m ELSE RemoveEach(remove(m, i, Head(s)), i, Tail(s))

RECURSIVE HostRemoveEach(_, _)
HostRemoveEach(m, s) ==
  IF s = <<>> THEN m ELSE HostRemoveEach(_remove_glyph(m, Head(s)), Tail(s))

clear(m, i) ==
  IF m.exc # "none" THEN m
  ELSE LET m1 == HostRemoveEach(m, SetToSeq(m.objs[i].items))
       IN [m1 EXCEPT !.objs[i].items = {}]

\* _GlyphSet(_items): the new object is appended to the heap.  other is
\* [none |-> TRUE] for None, or [none |-> FALSE, v |-> S] for a collection
\* whose set of elements is S.
GlyphSet_init(m, other) ==
  IF m.exc # "none" THEN m
  ELSE LET its == IF other.none THEN {} ELSE other.v
           i   == Len(m.objs) + 1
           m1  == [m EXCEPT !.objs = Append(@, [items |-> its, ctx |-> <<>>])]
       IN AddEach(m1, i, SetToSeq(its))

\* __iadd__(glyph): the whole collection is handed to the host in one
\* addStatusBarItem_ call, which takes one item id.  The bridge either
\* rejects the argument (rejects, a TypeError) or the call shows no item.
\* The method returns None.
iadd(m, i, G, rejects) ==
  IF m.exc # "none" THEN m
  ELSE LET m1 == [m EXCEPT !.objs[i].items = @ \cup G,
                           !.calls = Append(@, <<"add_collection", 0>>)]
       IN IF rejects THEN [m1 EXCEPT !.exc = "TypeError"] ELSE m1

call(m, i, grp) ==
  IF m.exc # "none" THEN m
  ELSE [m EXCEPT !.objs[i].ctx = Append(@, grp)]

enter(m, i) ==
  IF m.exc # "none" THEN m
  ELSE LET c == m.objs[i].ctx
       IN IF c = <<>> THEN [m EXCEPT !.exc = "IndexError"]
          ELSE AddEach(m, i, c[Len(c)])

\* __exit__ as it would be without the del of its context group.
exitKeepGroup(m, i) ==
  IF m.exc # "none" THEN m
  ELSE LET c == m.objs[i].ctx
       IN IF c = <<>> THEN [m EXCEPT !.exc = "IndexError"]
          ELSE RemoveEach(m, i, c[Len(c)])

\* __exit__ ignores the exception of the body and returns None.
exit(m, i) ==
  IF m.exc # "none" THEN m
  ELSE LET c == m.objs[i].ctx
       IN IF c = <<>> THEN [m EXCEPT !.exc = "IndexError"]
          ELSE LET m1 == RemoveEach(m, i, c[Len(c)])
               IN IF m1.exc # "none" THEN m1
                  ELSE [m1 EXCEPT !.objs[i].ctx = SubSeq(@, 1, Len(@) - 1)]

\* StatusBar.glyphs = other; a is the index of _active_glyphs and the new
\* object, the last of the heap, takes its place.
glyphs_setter(m, a, other) == GlyphSet_init(clear(m, a), other)

\* ------------------------------------------------------- the program
\* An open `with` block: obj is the object whose __exit__ the statement
\* holds.  The other fields record the block's entry for the properties:
\* grp its glyphs, S0 and H0 the active set and the host's items before
\* it was entered, clean that its body has not changed the set directly,
\* and ok that it and every block opened inside it so far met the
\* conditions of nested activation.
NoRepeat(grp) == Cardinality(Range(grp)) = Len(grp)

\* The operation that ran last: its name, its glyph argument (0: none),
\* the exception it ended in ("none": it returned), the host calls it
\* issued, in order, and for the end of a block whether the block met the
\* conditions of nested activation.
Idle == [op |-> "none", g |-> 0, outcome |-> "none", calls |-> <<>>, ok |-> FALSE]

\* A direct change of the set inside the open blocks: what was recorded of
\* their entry is of no use any more.
Dirty(w) ==
  [k \in 1..Len(w) |->
     [obj |-> w[k].obj, grp |-> <<>>, S0 |-> {}, H0 |-> {},
      clean |-> FALSE, ok |-> FALSE]]

\* An object no name refers to any more is gone: the live objects are
\* _active_glyphs and those of the open blocks, in their order of creation.
Live(a, w) == {a} \cup {w[k].obj : k \in 1..Len(w)}

Renumber(i, a, w) == Cardinality({j \in Live(a, w) : j <= i})

Collect(o, a, w) ==
  [objs   |-> [n \in 1..Cardinality(Live(a, w)) |->
                 o[CHOOSE i \in Live(a, w) : Renumber(i, a, w) = n]],
   active |-> Renumber(a, a, w),
   withs  |-> [k \in 1..Len(w) |-> [w[k] EXCEPT !.obj = Renumber(@, a, w)]]]

Items == objs[active].items

GInit ==
  /\ objs = <<[items |-> {}, ctx |-> <<>>]>>
  /\ active = 1
  /\ host = {}
  /\ withs = <<>>
  /\ last = Idle

Commit(m, a, w, op, g, ok) ==
  LET c == Collect(m.objs, a, w)
  IN /\ objs' = c.objs
     /\ active' = c.active
     /\ withs' = c.withs
     /\ host' = m.host
     /\ last' = [op |-> op, g |-> g, outcome |-> m.exc, calls |-> m.calls,
                 ok |-> ok]
     /\ UNCHANGED svars

\* sb.glyphs.add(g)
Add(g) ==
  /\ g \in Glyphs
  /\ Commit(add(Machine(objs, host), active, g), active, Dirty(withs), "add", g,
         FALSE)

\* sb.glyphs.remove(g)
Remove(g) ==
  /\ g \in Glyphs
  /\ Commit(remove(Machine(objs, host), active, g), active, Dirty(withs),
         "remove", g, FALSE)

\* sb.glyphs.clear()
Clear ==
  /\ active \in DOMAIN objs
  /\ Commit(clear(Machine(objs, host), active), active, Dirty(withs), "clear", 0,
         FALSE)

\* What is assigned to StatusBar.glyphs: None, or a collection of glyphs.
Others == {[none |-> TRUE]} \cup {[none |-> FALSE, v |-> S] : S \in SUBSET Glyphs}

\* sb.glyphs = other
SetGlyphs(other) ==
  /\ other \in Others
  /\ LET m == glyphs_setter(Machine(objs, host), active, other)
     IN Commit(m, Len(m.objs), Dirty(withs), "assign", 0, FALSE)

\* The conditions of nested activation at the entry of a block: no glyph
\* twice, none of them in the set, and the enclosing blocks met them too
\* (no context group is pending when there is no enclosing block).
EntryOk(grp) ==
  /\ NoRepeat(grp)
  /\ Range(grp) \cap Items = {}
  /\ IF withs = <<>> THEN objs[active].ctx = <<>> ELSE withs[Len(withs)].ok

\* The context groups pending on the live objects, those of the open
\* blocks among them.
RECURSIVE Pending(_)
Pending(o) ==
  IF o = <<>> THEN 0 ELSE Len(Head(o).ctx) + Pending(Tail(o))

\* with sb.glyphs(*grp):  -- the call, then __enter__
WithEnter(grp) ==
  /\ Pending(objs) < MaxDepth
  /\ LET m  == enter(call(Machine(objs, host), active, grp), active)
         f  == [obj |-> active, grp |-> grp, S0 |-> Items, H0 |-> host,
                clean |-> TRUE, ok |-> EntryOk(grp)]
         w  == [k \in 1..Len(withs) |->
                  [withs[k] EXCEPT !.ok = @ /\ EntryOk(grp)]]
     IN Commit(m, active, Append(w, f), "enter", 0, FALSE)

\* the end of the innermost open block, its body having raised or not
WithExit(raised) ==
  /\ withs # <<>>
  /\ LET f == withs[Len(withs)]
         m == exit(Machine(objs, host), f.obj)
         w == SubSeq(withs, 1, Len(withs) - 1)
     IN Commit(m, active,
               [k \in 1..Len(w) |-> [w[k] EXCEPT !.ok = @ /\ m.exc = "none"]],
               IF raised THEN "exit_raised" ELSE "exit", 0, f.ok)

\* sb.glyphs += G: __iadd__ on _active_glyphs, then the setter with what it
\* returned, None.
IAdd(G, rejects) ==
  /\ G \subseteq Glyphs
  /\ LET m1 == iadd(Machine(objs, host), active, G, rejects)
         m2 == glyphs_setter(m1, active, [none |-> TRUE])
     IN Commit(m2, IF m2.exc = "none" THEN Len(m2.objs) ELSE active,
               Dirty(withs), "iadd", 0, FALSE)

GlyphNext ==
  \/ \E g \in Glyphs : Add(g)
  \/ \E g \in Glyphs : Remove(g)
  \/ Clear
  \/ \E other \in Others : SetGlyphs(other)
  \/ \E grp \in Groups : WithEnter(grp)
  \/ \E raised \in BOOLEAN : WithExit(raised)


IAddNext ==
  \/ GlyphNext
  \/ \E G \in SUBSET Glyphs, rejects \in BOOLEAN : IAdd(G, rejects)



\* ------------------------------------------------------------ styles
\* What is assigned to StatusBar.style: "None" is Python's None and
\* "bogus" any value that is none of 'success', 'error' and None.
Styles == {"success", "error", "None", "bogus"}

Flash == 1..MaxFlash

\* The host's style overrides are a bit mask of override codes.
HasBit(ov, c) == c # 0 /\ (ov \div c) % 2 = 1

addStatusBarStyleOverrides(ov, c) == IF HasBit(ov, c) THEN ov ELSE ov + c

removeStatusBarStyleOverrides(ov, c) == IF HasBit(ov, c) THEN ov - c ELSE ov

\* The getter's style_map, and the setter's.
getter_style_map == (1 :> "success") @@ (2 :> "error") @@ (0 :> "None")

setter_style_map == [n \in {"success", "error", "None"} |->
                       CASE n = "success" -> 1 [] n = "error" -> 2 [] n = "None" -> 0]

\* StatusBar.style (getter): a lookup of the host's mask in style_map.
style_getter(ov) ==
  IF ov \in DOMAIN getter_style_map
  THEN [exc |-> "none", val |-> getter_style_map[ov]]
  ELSE [exc |-> "KeyError", val |-> "None"]

\* StatusBar.style = style, one host call a step; fr = [pc, style, cur] is
\* the call's frame: "read" reads self.style, "remove" removes that
\* override and goes on to the checks of style, "add" adds the new one.
\* The result: the host's mask, the frame ("ret": returned) and the
\* exception raised.
\* The setter as it would be with the return for None ahead of the removal.
style_setterNoneReturnsFirst(ov, fr) ==
  CASE fr.pc = "read" ->
         LET r == style_getter(ov)
         IN IF r.exc # "none"
            THEN [ov |-> ov, fr |-> [fr EXCEPT !.pc = "ret"], exc |-> r.exc]
            ELSE [ov |-> ov, fr |-> [fr EXCEPT !.pc = "remove", !.cur = r.val],
                  exc |-> "none"]
    [] fr.pc = "remove" ->
         LET ov1 == removeStatusBarStyleOverrides(ov, setter_style_map[fr.cur])
         IN IF fr.style = "None"
            THEN [ov |-> ov, fr |-> [fr EXCEPT !.pc = "ret", !.cur = "None"],
                  exc |-> "none"]
            ELSE IF fr.style \notin {"success", "error"}
            THEN [ov |-> ov1, fr |-> [fr EXCEPT !.pc = "ret", !.cur = "None"],
                  exc |-> "ValueError"]
            ELSE [ov |-> ov1, fr |-> [fr EXCEPT !.pc = "add", !.cur = "None"],
                  exc |-> "none"]
    [] fr.pc = "add" ->
         [ov  |-> addStatusBarStyleOverrides(ov, setter_style_map[fr.style]),
          fr  |-> [fr EXCEPT !.pc = "ret"],
          exc |-> "none"]

style_setter(ov, fr) ==
  CASE fr.pc = "read" ->
         LET r == style_getter(ov)
         IN IF r.exc # "none"
            THEN [ov |-> ov, fr |-> [fr EXCEPT !.pc = "ret"], exc |-> r.exc]
            ELSE [ov |-> ov, fr |-> [fr EXCEPT !.pc = "remove", !.cur = r.val],
                  exc |-> "none"]
    [] fr.pc = "remove" ->
         LET ov1 == removeStatusBarStyleOverrides(ov, setter_style_map[fr.cur])
         IN IF fr.style = "None"
            THEN [ov |-> ov1, fr |-> [fr EXCEPT !.pc = "ret", !.cur = "None"],
                  exc |-> "none"]
            ELSE IF fr.style \notin {"success", "error"}
            THEN [ov |-> ov1, fr |-> [fr EXCEPT !.pc = "ret", !.cur = "None"],
                  exc |-> "ValueError"]
            ELSE [ov |-> ov1, fr |-> [fr EXCEPT !.pc = "add", !.cur = "None"],
                  exc |-> "none"]
    [] fr.pc = "add" ->
         [ov  |-> addStatusBarStyleOverrides(ov, setter_style_map[fr.style]),
          fr  |-> [fr EXCEPT !.pc = "ret"],
          exc |-> "none"]

\* The caller's thread.  pc is "idle" between assignments; outcome is how
\* the last one ended.  For the properties: pre is the host's mask when
\* the assignment began, added whether it issued the host's add, and solo
\* whether no flash thread has run since it began.
MainIdle ==
  [pc |-> "idle", style |-> "None", cur |-> "None", outcome |-> "none",
   pre |-> 0, added |-> FALSE, solo |-> TRUE]

\* A flash_style thread: pc is "idle" (not started), the setter's "read",
\* "remove", "add" in the try block (stage "try") or in the finally block
\* (stage "finally"), "sleep", or "done"; exc is the exception on its way
\* out.  For the properties: robbed is whether the cleanup of another
\* flash removed the override this one had set, while this one slept.
FlashIdle ==
  [pc |-> "idle", stage |-> "try", style |-> "None", cur |-> "None",
   exc |-> "none", robbed |-> FALSE]

SInit ==
  /\ overrides = 0
  /\ main = MainIdle
  /\ fl = [t \in Flash |-> FlashIdle]

Init == GInit /\ SInit

Quiet == \A t \in Flash : fl[t].pc \in {"idle", "done"}

\* sb.style = style: the assignment begins with the read of self.style.
MainBegin(style) ==
  /\ main.pc = "idle"
  /\ LET r == style_setter(overrides, [pc |-> "read", style |-> style, cur |-> "None"])
     IN /\ overrides' = r.ov
        /\ main' = [pc |-> IF r.fr.pc = "ret" THEN "idle" ELSE r.fr.pc,
                    style |-> style, cur |-> r.fr.cur, outcome |-> r.exc,
                    pre |-> overrides, added |-> FALSE, solo |-> Quiet]
  /\ UNCHANGED <<fl, gvars>>

MainStep ==
  /\ main.pc \in {"remove", "add"}
  /\ LET r == style_setter(overrides, [pc |-> main.pc, style |-> main.style, cur |-> main.cur])
     IN /\ overrides' = r.ov
        /\ main' = [main EXCEPT !.pc = IF r.fr.pc = "ret" THEN "idle" ELSE r.fr.pc,
                                !.cur = r.fr.cur, !.outcome = r.exc,
                                !.added = @ \/ main.pc = "add"]
  /\ UNCHANGED <<fl, gvars>>

NotSolo == [main EXCEPT !.solo = FALSE]

\* sb.flash_style(style): _run_in_background starts the thread.
FlashStart(t, style) ==
  /\ fl[t].pc = "idle"
  /\ fl' = [fl EXCEPT ![t] = [@ EXCEPT !.pc = "read", !.style = style]]
  /\ main' = NotSolo
  /\ UNCHANGED <<overrides, gvars>>

\* try: self.style = style
FlashSet(t) ==
  /\ fl[t].stage = "try"
  /\ fl[t].pc \in {"read", "remove", "add"}
  /\ LET r == style_setter(overrides, [pc |-> fl[t].pc, style |-> fl[t].style, cur |-> fl[t].cur])
     IN /\ overrides' = r.ov
        /\ fl' = [fl EXCEPT ![t] =
                    IF r.exc # "none"
                    THEN [@ EXCEPT !.stage = "finally", !.pc = "read",
                                   !.cur = "None", !.exc = r.exc]
                    ELSE [@ EXCEPT !.pc = IF r.fr.pc = "ret" THEN "sleep" ELSE r.fr.pc,
                                   !.cur = r.fr.cur]]
  /\ main' = NotSolo
  /\ UNCHANGED gvars

\* try: time.sleep(duration), which returns or is interrupted
FlashSleep(t, interrupted) ==
  /\ fl[t].pc = "sleep"
  /\ fl' = [fl EXCEPT ![t] =
              [@ EXCEPT !.stage = "finally", !.pc = "read",
                        !.exc = IF interrupted THEN "KeyboardInterrupt" ELSE "none"]]
  /\ main' = NotSolo
  /\ UNCHANGED <<overrides, gvars>>

\* The override that a sleeping flash has set and that is removed.
Robs(t, u, c) ==
  /\ u # t
  /\ fl[u].pc = "sleep"
  /\ setter_style_map[fl[u].style] = c
  /\ HasBit(overrides, c)

\* finally: self.style = None; an exception of it replaces the pending one
FlashClear(t) ==
  /\ fl[t].stage = "finally"
  /\ fl[t].pc \in {"read", "remove"}
  /\ LET r == style_setter(overrides, [pc |-> fl[t].pc, style |-> "None", cur |-> fl[t].cur])
         c == IF fl[t].pc = "remove" THEN setter_style_map[fl[t].cur] ELSE 0
     IN /\ overrides' = r.ov
        /\ fl' = [u \in Flash |->
                    IF u = t
                    THEN IF r.exc # "none"
                         THEN [fl[t] EXCEPT !.pc = "done", !.cur = "None", !.exc = r.exc]
                         ELSE [fl[t] EXCEPT !.pc = IF r.fr.pc = "ret" THEN "done" ELSE r.fr.pc,
                                            !.cur = r.fr.cur]
                    ELSE IF Robs(t, u, c) THEN [fl[u] EXCEPT !.robbed = TRUE]
                    ELSE fl[u]]
  /\ main' = NotSolo
  /\ UNCHANGED gvars

FlashNext ==
  \/ \E t \in Flash, style \in Styles : FlashStart(t, style)
  \/ \E t \in Flash : FlashSet(t)
  \/ \E t \in Flash, interrupted \in BOOLEAN : FlashSleep(t, interrupted)
  \/ \E t \in Flash : FlashClear(t)

GlyphSpec == Init /\ [][GlyphNext]_vars

IAddSpec == Init /\ [][IAddNext]_vars

FlashSpec == Init /\ [][FlashNext]_vars

StyleNext ==
  \/ \E style \in Styles : MainBegin(style)
  \/ MainStep
  \/ FlashNext

StyleSpec == Init /\ [][StyleNext]_vars

Next ==
  \/ IAddNext
  \/ StyleNext

Spec == Init /\ [][Next]_vars

\* ------------------------------------------------ glyph set properties
ExitOps == {"exit", "exit_raised"}

\* A step that ends the innermost open block.
ExitStep == /\ withs # <<>>
            /\ last'.op \in ExitOps
            /\ Len(withs') = Len(withs) - 1

Top == withs[Len(withs)]

Removals(grp) == [k \in 1..Len(grp) |-> <<"remove", grp[k]>>]

\* C1: after any sequence of add, remove, clear, block entry and exit, and
\* assignment to StatusBar.glyphs, the tracked set of glyph ids equals the
\* set of glyph ids the host displays.
C1_LockStep == Items = host

\* C2: when a block whose body did not change the set ends, with or
\* without an exception of the body, the active set is again the set that
\* existed before the block was entered, whatever glyphs the block named.
C2_RestoreOnExit ==
  [][(ExitStep /\ Top.clean) => objs'[active'].items = Top.S0]_gvars

\* C4: remove(g) for a glyph the set does not track ends in a KeyError and
\* leaves the tracked set as it was, and the host has been asked to remove
\* g by then.
C4_RemoveUntracked ==
  [][(last'.op = "remove" /\ last'.g \notin Items) =>
       /\ last'.outcome = "KeyError"
       /\ objs'[active'].items = Items
       /\ last'.calls = <<<<"remove", last'.g>>>>
       /\ host' = host \ {last'.g}]_gvars

C4_Witness ==
  /\ last.op = "remove"
  /\ last.outcome = "KeyError"
  /\ last.calls = <<<<"remove", last.g>>>>
  /\ Items # {}
  /\ last.g \notin Items

C10_InPlaceAdd ==
  [][\A G \in SUBSET Glyphs, rejects \in BOOLEAN :
       IAdd(G, rejects) =>
         /\ G \subseteq objs'[active'].items
         /\ Items \subseteq objs'[active'].items
         /\ objs'[active'].items = host']_gvars

\* ------------------------------------------------------ style properties
Done == /\ \A t \in Flash : fl[t].pc \in {"idle", "done"}
        /\ \E t \in Flash : fl[t].pc = "done"

\* C3: once every flash thread has ended, however its try block ended, no
\* style override is left on the status bar.
C3_FlashCleanup == Done => overrides = 0

\* C5: an assignment to StatusBar.style of a value other than 'success',
\* 'error' and None ends in a ValueError and adds no override to the host;
\* an assignment of 'success', 'error' or None raises nothing.
C5_StyleValidation ==
  (main.pc = "idle") =>
     IF main.style = "bogus"
     THEN main.outcome = "ValueError" /\ ~main.added
     ELSE main.outcome = "none"

\* C6: nothing coordinates two flashes: whenever the cleanup of one flash
\* removes the override it read while another flash that set it is still in
\* its sleep, the override is gone from the host and the other flash sleeps
\* on without it.
C6_CleanupRace ==
  [][\A t \in Flash, u \in Flash :
       (/\ fl[t].stage = "finally" /\ fl[t].pc = "remove"
        /\ fl'[t].pc = "done"
        /\ Robs(t, u, setter_style_map[fl[t].cur]))
       => /\ ~HasBit(overrides', setter_style_map[fl[u].style])
          /\ fl'[u].pc = "sleep"
          /\ fl'[u].robbed]_vars

\* A flash sleeps, its duration not over, and the override it set has been
\* removed by the cleanup of another flash.
C6_Witness ==
  \E u \in Flash :
    /\ fl[u].pc = "sleep"
    /\ fl[u].robbed
    /\ fl[u].style \in {"success", "error"}
    /\ ~HasBit(overrides, setter_style_map[fl[u].style])

\* C8: at most one style override, success or error, is active on the host
\* in every reachable state.
C8_SingleOverride == ~(HasBit(overrides, 1) /\ HasBit(overrides, 2))

\* C9: when an assignment of an invalid value to StatusBar.style has ended
\* in a ValueError, no other thread having run meanwhile, the override that
\* was active before the assignment is still active.
C9_RejectedKeepsStyle ==
  (main.pc = "idle" /\ main.style = "bogus" /\ main.outcome = "ValueError" /\ main.solo)
     => overrides = main.pre

====
